---- MODULE Spec2Model ----
(***************************************************************************)
(* StellaCradle Mk-1 multi-habitat simulator: the per-frame dynamics of    *)
(* the rotating hub, the universal joint, the connecting arm and the box   *)
(* habitat, as written in the React/three-fiber components.                *)
(*                                                                         *)
(* Numbers are fixed point.  Angles are in micro-radians, angular          *)
(* velocities in micro-radians per second, accelerations in milli-m/s^2,   *)
(* and time in ticks of 1/600 s (so 1/60 s = 10 ticks, 0.1 s = 60 ticks).  *)
(***************************************************************************)
EXTENDS Integers, Sequences, FiniteSets, TLC

(* ---------------------------- units ----------------------------------- *)
Micro == 1000 * 1000
Milli == 10 * 100
TicksPerSecond == 6 * 100

(* ---------------------------- bounds ---------------------------------- *)
\* number of frames a behaviour of Spec may render
MaxFrames == 2
\* number of user inputs (button, slider, dropdown) a behaviour of Spec may take
MaxEvents == 4
\* largest habitat count the user selects in the model
MaxHabitats == 4
\* number of frames of a fixed-step run (RunSpec): 10 s at 1/60 s
MaxRunFrames == 600
\* number of frames a behaviour of CommitSpec may render
MaxQueuedFrames == 3

\* frames rendered in a run that stops under the rotation lock
MaxStopFrames == 3

\* slider values the user picks in the model
RpmChoices == {0, 20, 60}
MassChoices == {70, 120}
\* frame deltas delivered by the render loop: 1/60 s, 0.1 s, 1 s
DeltaChoices == {10, 60, 600}
\* the configurations and the fixed frame deltas of a fixed-step run
RunRpmChoices == {20, 30, 60}
RunMassChoices == {40, 70, 120}
RunDeltaChoices == {10, 60}

(* ------------------------- arithmetic helpers -------------------------- *)
Abs(x) == IF x < 0 THEN -x ELSE x

Min(a, b) == IF a < b THEN a ELSE b

\* floor(a * b / c) without forming a * b (0 <= b, 0 < c)
MulDiv(a, b, c) == (a \div c) * b + ((a % c) * b) \div c

\* a * (dt seconds)
TimesDelta(a, dt) == MulDiv(a, dt, TicksPerSecond)

RECURSIVE SqrtSearch(_, _, _)
SqrtSearch(n, lo, hi) ==
    IF lo >= hi THEN lo
    ELSE LET mid == (lo + hi + 1) \div 2
         IN  IF mid * mid <= n THEN SqrtSearch(n, mid, hi)
                               ELSE SqrtSearch(n, lo, mid - 1)

\* floor(sqrt(n)) for 0 <= n < 2^30
Sqrt(n) == SqrtSearch(n, 0, 32767)

(* --------------------------- Math constants ---------------------------- *)
PI == 3141593
HalfPi == 1570796
SixthPi == 523599

\* Math.atan on [0, 1]: x in 1/10000, result in micro-radians
\* (odd minimax polynomial of degree 11, error below 2e-5 rad)
AtanUnit(x) ==
    LET z  == (x * x) \div 10000
        p5 == -11721
        p4 == 52653 + MulDiv(p5, z, 10000)
        p3 == -116433 + MulDiv(p4, z, 10000)
        p2 == 193543 + MulDiv(p3, z, 10000)
        p1 == -332623 + MulDiv(p2, z, 10000)
        p0 == 999977 + MulDiv(p1, z, 10000)
    IN  MulDiv(p0, x, 10000)

\* Math.atan(num / den) for num >= 0, den > 0
Atan(num, den) ==
    IF num <= den THEN AtanUnit((num * 10000) \div den)
                  ELSE HalfPi - AtanUnit((den * 10000) \div num)

(* -------------------------- program constants -------------------------- *)
Planets == {"earth", "moon", "mars", "space"}

\* PLANET_DATA[planet].gravity in milli-m/s^2
PLANET_DATA(p) ==
    CASE p = "earth" -> 9810
      [] p = "moon"  -> 1620
      [] p = "mars"  -> 3710
      [] p = "space" -> 0

HabitatConfigs == {"single", "dual", "quad", "hexa", "octa"}

\* HABITAT_CONFIGS with an entry of no habitat at all
HabitatConfigsWithEmpty(c) ==
    CASE c = "single" -> 0
      [] c = "dual"   -> 2
      [] c = "quad"   -> 4
      [] c = "hexa"   -> 6
      [] c = "octa"   -> 8

\* HABITAT_CONFIGS[config].count
HABITAT_CONFIGS(c) ==
    CASE c = "single" -> 1
      [] c = "dual"   -> 2
      [] c = "quad"   -> 4
      [] c = "hexa"   -> 6
      [] c = "octa"   -> 8

ARM_LENGTH == 4
BOX_MASS == 50
\* ANGULAR_DAMPING = 0.88, in percent
ANGULAR_DAMPING == 88
\* GRAVITY_ALIGNMENT_SPEED = 1.5, in thousandths
GRAVITY_ALIGNMENT_SPEED == 1500
\* CENTRIFUGAL_BULGE_FACTOR = 0.8, in tenths
CENTRIFUGAL_BULGE_FACTOR == 8

\* (rpm * 2 * Math.PI) / 60, micro-rad/s
AngularVelocity(r) == (r * 2 * PI) \div 60

\* angularVelocity * angularVelocity * ARM_LENGTH, milli-m/s^2
CentrifugalAcceleration(r) ==
    LET w == AngularVelocity(r) \div Milli
    IN  (w * w * ARM_LENGTH) \div Milli

\* x * ANGULAR_DAMPING
Damp(x) == MulDiv(x, ANGULAR_DAMPING, 100)

(* ------------------------------ state ---------------------------------- *)
VARIABLES
    rpm,                \* App: rpm slider value
    isRotating,         \* App: play / pause flag
    planet,             \* App: selected environment
    personMass,         \* App: occupant mass, kg
    habitatConfig,      \* App: selected habitat configuration
    rotationLocked,     \* App: self-rotation lock flag
    elapsed,            \* state.clock elapsed time, ticks
    delta,              \* delta of the last frame, ticks
    frame,              \* number of frames rendered so far
    events,             \* number of user inputs taken so far
    frameProps,         \* the props the callbacks of the last frame closed over
    mechanismRotationY, \* MainRotatingMechanism: mechanismRef.rotation.y
    jointAngles,        \* UniversalJointAssembly state, per habitat index
    angularVelocities,  \* UniversalJointAssembly state, per habitat index
    inertialLagAngle,   \* ConnectingArmToBox state, per habitat index
    boxRotation,        \* BoxHabitat state, per habitat index
    boxRotationY,       \* BoxHabitat: boxRef.rotation.y, per habitat index
    altRpm,             \* alternate App: rpm slider value
    altIsRotating,      \* alternate App: start / stop flag
    rotationFixed,      \* alternate App: rotation-fixed checkbox
    currentRotation,    \* alternate RotatingArmSystem: accumulated rotation state
    systemRotationY,    \* alternate RotatingArmSystem: systemRef.rotation.y
    altPlanet,          \* alternate App: selected environment
    numHabitats,        \* alternate App: selected number of habitats
    altBoxType,         \* alternate App: selected box shape
    altBoxSize,         \* alternate App: box size, tenths of a metre
    connectingArmLength, \* App: connecting-arm length, cm
    boxType,            \* App: selected box shape
    boxSize,            \* App: box size factor, tenths
    twin,               \* a second simulation fed the same frames and inputs
    pending             \* state updates set by frame callbacks, not yet committed

config == <<rpm, isRotating, planet, personMass, habitatConfig, rotationLocked>>
clock == <<elapsed, delta, frame, frameProps>>
modules == <<jointAngles, angularVelocities, inertialLagAngle, boxRotation, boxRotationY>>
altLayout == <<numHabitats, altBoxType, altBoxSize>>
alt == <<altRpm, altIsRotating, rotationFixed, currentRotation, systemRotationY, altPlanet,
        altLayout>>
geometry == <<connectingArmLength, boxType, boxSize>>
vars == <<config, events, clock, mechanismRotationY, modules, alt, geometry, twin, pending>>

habitatCount == HABITAT_CONFIGS(habitatConfig)
Habitats == 0 .. (habitatCount - 1)

\* the props of the frame callbacks in the current render
Props == [isRotating |-> isRotating, rpm |-> rpm, planet |-> planet,
          rotationLocked |-> rotationLocked]

\* the branch condition shared by the three per-habitat frame callbacks
Driving == isRotating /\ rpm > 0

\* the branch condition of UniversalJointAssembly.useFrame
JointDriving == isRotating /\ rpm > 0

\* LagDriving without the rpm test: the arm lag is driven whenever active
LagDrivingWhenActive == isRotating

\* the branch condition of ConnectingArmToBox.useFrame
LagDriving == isRotating /\ rpm > 0

\* the branch condition of BoxHabitat.useFrame
BoxDriving == isRotating /\ rpm > 0

\* the gate of MainRotatingMechanism.useFrame
HubTurning == isRotating

(* --------------------- UniversalJointAssembly.useFrame ----------------- *)
\* Math.sqrt(totalMass / 50), in thousandths
MassInertiaFactor(mass) == Sqrt(((BOX_MASS + mass) * Micro) \div 50)

\* ResponseSpeed multiplied, not divided, by the inertia factor
ResponseSpeedGrowsWithMass(mass) ==
    (GRAVITY_ALIGNMENT_SPEED * MassInertiaFactor(mass)) \div Milli

\* GRAVITY_ALIGNMENT_SPEED / massInertiaFactor, in thousandths per second
ResponseSpeed(mass) == (GRAVITY_ALIGNMENT_SPEED * Milli) \div MassInertiaFactor(mass)

\* GRAVITY_ALIGNMENT_SPEED * 1.5, in thousandths per second
ReturnSpeed == (GRAVITY_ALIGNMENT_SPEED * 15) \div 10

\* clampedTargetZ of the drive branch
ClampedTargetZ(r, p) ==
    LET targetAngleZ ==
            IF p = "space" THEN HalfPi
            ELSE Atan(CentrifugalAcceleration(r), PLANET_DATA(p))
    IN  Min(targetAngleZ, HalfPi)

\* (velocity + angleDiff * speed * delta) * ANGULAR_DAMPING
NewVelocity(velocity, angleDiff, speed, dt) ==
    Damp(velocity + TimesDelta(MulDiv(angleDiff, speed, Milli), dt))

\* angle + newVelocity * delta
NewAngle(angle, newVelocity, dt) == angle + TimesDelta(newVelocity, dt)

\* one axis of the damped update toward `target`
AxisStep(angle, velocity, target, speed, dt) ==
    LET nv == NewVelocity(velocity, target - angle, speed, dt)
    IN  [angle |-> NewAngle(angle, nv, dt), velocity |-> nv]

\* JointFrame with the Vacuum stop branch lost: every stop returns to vertical
JointFrameVacuumReturns(ja, av, dt) ==
    IF Driving THEN
        LET sx == AxisStep(ja.x, av.x, 0, ResponseSpeed(personMass), dt)
            sz == AxisStep(ja.z, av.z, ClampedTargetZ(rpm, planet),
                           ResponseSpeed(personMass), dt)
        IN  [angles |-> [x |-> sx.angle, z |-> sz.angle],
             velocities |-> [x |-> sx.velocity, z |-> sz.velocity]]
    ELSE
        LET sx == AxisStep(ja.x, av.x, 0, ReturnSpeed, dt)
            sz == AxisStep(ja.z, av.z, 0, ReturnSpeed, dt)
        IN  [angles |-> [x |-> sx.angle, z |-> sz.angle],
             velocities |-> [x |-> sx.velocity, z |-> sz.velocity]]

\* JointFrame whose drive branch gives the X axis the target of the Z axis
JointFrameDrivesBothAxes(ja, av, dt) ==
    IF Driving THEN
        LET sx == AxisStep(ja.x, av.x, ClampedTargetZ(rpm, planet),
                           ResponseSpeed(personMass), dt)
            sz == AxisStep(ja.z, av.z, ClampedTargetZ(rpm, planet),
                           ResponseSpeed(personMass), dt)
        IN  [angles |-> [x |-> sx.angle, z |-> sz.angle],
             velocities |-> [x |-> sx.velocity, z |-> sz.velocity]]
    ELSE IF planet = "space" THEN
        [angles |-> ja,
         velocities |-> [x |-> Damp(av.x), z |-> Damp(av.z)]]
    ELSE
        LET sx == AxisStep(ja.x, av.x, 0, ReturnSpeed, dt)
            sz == AxisStep(ja.z, av.z, 0, ReturnSpeed, dt)
        IN  [angles |-> [x |-> sx.angle, z |-> sz.angle],
             velocities |-> [x |-> sx.velocity, z |-> sz.velocity]]

\* the whole callback for one habitat: the new {angles, velocities}
JointFrame(ja, av, dt) ==
    IF JointDriving THEN
        LET sx == AxisStep(ja.x, av.x, 0, ResponseSpeed(personMass), dt)
            sz == AxisStep(ja.z, av.z, ClampedTargetZ(rpm, planet),
                           ResponseSpeed(personMass), dt)
        IN  [angles |-> [x |-> sx.angle, z |-> sz.angle],
             velocities |-> [x |-> sx.velocity, z |-> sz.velocity]]
    ELSE IF planet = "space" THEN
        [angles |-> ja,
         velocities |-> [x |-> Damp(av.x), z |-> Damp(av.z)]]
    ELSE
        LET sx == AxisStep(ja.x, av.x, 0, ReturnSpeed, dt)
            sz == AxisStep(ja.z, av.z, 0, ReturnSpeed, dt)
        IN  [angles |-> [x |-> sx.angle, z |-> sz.angle],
             velocities |-> [x |-> sx.velocity, z |-> sz.velocity]]

(* ----------------------- ConnectingArmToBox.useFrame ------------------- *)
\* clampedLagAngle of the drive branch
ClampedLagAngle(r, p) ==
    LET targetLagAngle ==
            IF p = "space"
            THEN (Atan(CentrifugalAcceleration(r), 10 * Milli)
                    * CENTRIFUGAL_BULGE_FACTOR * 3) \div 100
            ELSE (Atan(CentrifugalAcceleration(r), PLANET_DATA(p))
                    * CENTRIFUGAL_BULGE_FACTOR) \div 10
    IN  Min(targetLagAngle, SixthPi)

\* LagFrame whose stop branch returns at the rate of the drive branch
LagFrameReturnsAtDriveRate(lag, dt) ==
    IF Driving THEN
        lag + TimesDelta((ClampedLagAngle(rpm, planet) - lag) * 2, dt)
    ELSE IF planet = "space" THEN lag
    ELSE lag + TimesDelta((0 - lag) * 2, dt)

\* the whole callback for one habitat: the new inertialLagAngle
LagFrame(lag, dt) ==
    IF LagDriving THEN
        lag + TimesDelta((ClampedLagAngle(rpm, planet) - lag) * 2, dt)
    ELSE IF planet = "space" THEN lag
    ELSE lag + TimesDelta((0 - lag) * 3, dt)

(* --------------------------- BoxHabitat.useFrame ----------------------- *)
\* THREE.MathUtils.lerp(x, 0, delta * 3)
LerpToZero(x, dt) == x + TimesDelta((0 - x) * 3, dt)

\* -angularVelocity * state.clock.getElapsedTime()
TargetRotation(r, t) == 0 - TimesDelta(AngularVelocity(r), t)

\* BoxFrame whose free-rotation branch leaves the box rotation as it is
BoxFrameFreeKeepsRotation(rot, rotY, t, dt) ==
    IF Driving THEN
        IF rotationLocked
        THEN [state |-> TargetRotation(rpm, t), y |-> TargetRotation(rpm, t)]
        ELSE [state |-> rot, y |-> rotY]
    ELSE IF planet = "space" THEN
        [state |-> rot, y |-> IF rotationLocked THEN rot ELSE rotY]
    ELSE
        [state |-> 0, y |-> LerpToZero(rotY, dt)]

\* the self-rotation part of the callback for one habitat, at clock time t:
\* the new boxRotation state and the new boxRef.rotation.y
BoxFrame(rot, rotY, t, dt) ==
    IF BoxDriving THEN
        IF rotationLocked
        THEN [state |-> TargetRotation(rpm, t), y |-> TargetRotation(rpm, t)]
        ELSE [state |-> 0, y |-> 0]
    ELSE IF planet = "space" THEN
        [state |-> rot, y |-> IF rotationLocked THEN rot ELSE rotY]
    ELSE
        [state |-> 0, y |-> LerpToZero(rotY, dt)]

(* ---------------------- MainRotatingMechanism.useFrame ----------------- *)
\* HubFrame without the isRotating gate: the hub keeps turning when paused
HubFrameKeepsTurning(rotY, dt) == rotY + TimesDelta(AngularVelocity(rpm), dt)

\* HubFrame that reduces the hub angle modulo 2 * pi
HubFrameWraps(rotY, dt) ==
    IF isRotating THEN (rotY + TimesDelta(AngularVelocity(rpm), dt)) % (2 * PI)
    ELSE rotY

\* mechanismRef.rotation.y after the callback
HubFrame(rotY, dt) ==
    IF HubTurning THEN rotY + TimesDelta(AngularVelocity(rpm), dt) ELSE rotY

\* HabitatAngle that spreads the arms over half a turn
HabitatAngleHalfTurn(index, count) == (index * PI) \div count

\* angle = (index * 2 * Math.PI) / habitatCount: the rotation of the arm
\* group of habitat `index` inside the mechanism group, micro-radians
HabitatAngle(index, count) == (index * 2 * PI) \div count

\* the azimuth of habitat `index`: its arm group is a child of the mechanism
\* group, whose rotation.y is the hub angle
Azimuth(index) == HabitatAngle(index, habitatCount) + mechanismRotationY

(* ----------------------- App: the physics report ----------------------- *)
\* a * a for 0 <= a < 2^25, as <<high, low>> digits in base 2^24
Square(a) ==
    LET a1  == a \div (64 * 64)
        a0  == a % (64 * 64)
        mid == 2 * a1 * a0
        low == (mid % (64 * 64)) * (64 * 64) + a0 * a0
    IN  <<a1 * a1 + mid \div (64 * 64) + low \div (4096 * 4096),
          low % (4096 * 4096)>>

\* p + q on two-digit numbers
Plus(p, q) ==
    <<p[1] + q[1] + (p[2] + q[2]) \div (4096 * 4096), (p[2] + q[2]) % (4096 * 4096)>>

\* p <= q on two-digit numbers
AtMost(p, q) == p[1] < q[1] \/ (p[1] = q[1] /\ p[2] <= q[2])

RECURSIVE HypotSearch(_, _, _)
HypotSearch(n, lo, hi) ==
    IF lo >= hi THEN lo
    ELSE LET mid == (lo + hi + 1) \div 2
         IN  IF AtMost(Square(mid), n) THEN HypotSearch(n, mid, hi)
                                       ELSE HypotSearch(n, lo, mid - 1)

\* Math.sqrt(a * a + b * b), rounded down, for a result below 2^25
Hypot(a, b) == HypotSearch(Plus(Square(a), Square(b)), 0, 8192 * 4096 - 1)

\* x * (180 / Math.PI): micro-radians to thousandths of a degree, to nearest
Degrees(x) == (MulDiv(x, 3600, 31416) + 1) \div 2

\* Math.atan2(y, x) for y >= 0, x >= 0
Atan2(y, x) ==
    IF x = 0 THEN (IF y > 0 THEN HalfPi ELSE 0) ELSE Atan(y, x)

\* BOX_MASS + personMass, kg
totalMass == BOX_MASS + personMass

\* the report's centrifugalAcceleration, milli-m/s^2
centrifugalAcceleration == IF isRotating THEN CentrifugalAcceleration(rpm) ELSE 0

\* totalMass * planetGravity, milli-N
gravitationalForce == totalMass * PLANET_DATA(planet)

\* milli-N
centrifugalForce == IF isRotating THEN totalMass * centrifugalAcceleration ELSE 0

\* milli-N
totalForce ==
    IF isRotating
    THEN (IF planet = "space" THEN centrifugalForce
          ELSE Hypot(centrifugalForce, gravitationalForce))
    ELSE gravitationalForce

\* totalGravity with the occupant left out of the divisor
totalGravityPerBoxMass == totalForce \div BOX_MASS

\* totalForce / totalMass, milli-m/s^2
totalGravity == totalForce \div totalMass

\* idealAngle with the 60 degree hinge limit in place of 90 in Vacuum
idealAngleHingeLimited ==
    IF isRotating
    THEN (IF planet = "space" THEN 60 * Milli
          ELSE Degrees(Atan(centrifugalAcceleration, PLANET_DATA(planet))))
    ELSE 0

\* the report's ideal joint angle, thousandths of a degree
idealAngle ==
    IF isRotating
    THEN (IF planet = "space" THEN 90 * Milli
          ELSE Degrees(Atan(centrifugalAcceleration, PLANET_DATA(planet))))
    ELSE 0

\* gravityAngle computed from the rpm whether or not the rotation is active
gravityAngleUngated ==
    IF planet = "space" THEN 90 * Milli
    ELSE Degrees(Atan2(CentrifugalAcceleration(rpm), PLANET_DATA(planet)))

\* the report's gravity direction angle, thousandths of a degree
gravityAngle ==
    IF isRotating
    THEN (IF planet = "space" THEN 90 * Milli
          ELSE Degrees(Atan2(centrifugalAcceleration, PLANET_DATA(planet))))
    ELSE 0

\* the report's inertialLagAngle, thousandths of a degree
reportInertialLagAngle ==
    IF isRotating
    THEN (IF planet = "space"
          THEN Degrees((Atan(centrifugalAcceleration, 10 * Milli)
                          * CENTRIFUGAL_BULGE_FACTOR * 3) \div 100)
          ELSE Degrees((Atan(centrifugalAcceleration, PLANET_DATA(planet))
                          * CENTRIFUGAL_BULGE_FACTOR) \div 10))
    ELSE 0

\* the gravity values the joint callback divides by, with no Vacuum branch
JointGravityDivisorsUnbranched ==
    IF Driving THEN {PLANET_DATA(planet)} ELSE {}

\* the gravity values UniversalJointAssembly.useFrame divides by in a frame
JointGravityDivisors ==
    IF Driving
    THEN (IF planet = "space" THEN {} ELSE {PLANET_DATA(planet)})
    ELSE {}

\* the gravity values ConnectingArmToBox.useFrame divides by in a frame
LagGravityDivisors ==
    IF Driving
    THEN (IF planet = "space" THEN {} ELSE {PLANET_DATA(planet)})
    ELSE {}

\* the gravity values the report (idealAngle, inertialLagAngle) divides by
ReportGravityDivisors ==
    IF isRotating
    THEN (IF planet = "space" THEN {} ELSE {PLANET_DATA(planet)})
    ELSE {}

(* ------------------------------ actions -------------------------------- *)
ZeroAngles == [x |-> 0, z |-> 0]

\* App: the geometry state after construction
GeometryInit ==
    /\ connectingArmLength = 80
    /\ boxType = "cube"
    /\ boxSize = 10

\* the hub angle and the per-habitat state of the simulation
Dynamics ==
    [mechanismRotationY |-> mechanismRotationY,
     jointAngles |-> jointAngles,
     angularVelocities |-> angularVelocities,
     inertialLagAngle |-> inertialLagAngle,
     boxRotation |-> boxRotation,
     boxRotationY |-> boxRotationY]

\* no state update is waiting to be committed
NoPending == [field \in {} |-> 0]

\* the alternate App and its RotatingArmSystem after construction
AltInit ==
    /\ altRpm = 0
    /\ altIsRotating = FALSE
    /\ rotationFixed = FALSE
    /\ currentRotation = 0
    /\ systemRotationY = 0
    /\ altPlanet = "earth"
    /\ numHabitats = 2
    /\ altBoxType = "cube"
    /\ altBoxSize = 12

Init ==
    /\ rpm = 20
    /\ isRotating = FALSE
    /\ planet = "earth"
    /\ personMass = 70
    /\ habitatConfig = "dual"
    /\ rotationLocked = FALSE
    /\ elapsed = 0
    /\ delta = 0
    /\ frame = 0
    /\ events = 0
    /\ frameProps = Props
    /\ mechanismRotationY = 0
    /\ jointAngles = [i \in 0 .. 1 |-> ZeroAngles]
    /\ angularVelocities = [i \in 0 .. 1 |-> ZeroAngles]
    /\ inertialLagAngle = [i \in 0 .. 1 |-> 0]
    /\ boxRotation = [i \in 0 .. 1 |-> 0]
    /\ boxRotationY = [i \in 0 .. 1 |-> 0]
    /\ GeometryInit
    /\ twin = Dynamics
    /\ pending = NoPending
    /\ AltInit

\* one rendered frame with delta dt: every useFrame callback runs once
Frame(dt) ==
    /\ elapsed' = elapsed + dt
    /\ delta' = dt
    /\ frame' = frame + 1
    /\ frameProps' = Props
    /\ mechanismRotationY' = HubFrame(mechanismRotationY, dt)
    /\ jointAngles' =
          [i \in Habitats |-> JointFrame(jointAngles[i], angularVelocities[i], dt).angles]
    /\ angularVelocities' =
          [i \in Habitats |-> JointFrame(jointAngles[i], angularVelocities[i], dt).velocities]
    /\ inertialLagAngle' = [i \in Habitats |-> LagFrame(inertialLagAngle[i], dt)]
    /\ boxRotation' =
          [i \in Habitats |-> BoxFrame(boxRotation[i], boxRotationY[i], elapsed + dt, dt).state]
    /\ boxRotationY' =
          [i \in Habitats |-> BoxFrame(boxRotation[i], boxRotationY[i], elapsed + dt, dt).y]
    /\ UNCHANGED <<config, events, alt, geometry, pending>>

RenderFrame ==
    /\ frame < MaxFrames
    /\ \E dt \in DeltaChoices : Frame(dt)
    /\ UNCHANGED twin

\* setRpm(Number(e.target.value))
SetRpm ==
    /\ events < MaxEvents
    /\ events' = events + 1
    /\ \E r \in RpmChoices : r # rpm /\ rpm' = r
    /\ UNCHANGED <<isRotating, planet, personMass, habitatConfig, rotationLocked>>
    /\ UNCHANGED <<clock, mechanismRotationY, modules, alt, geometry, twin, pending>>

\* setIsRotating(!isRotating)
ToggleRotating ==
    /\ events < MaxEvents
    /\ events' = events + 1
    /\ isRotating' = ~isRotating
    /\ UNCHANGED <<rpm, planet, personMass, habitatConfig, rotationLocked>>
    /\ UNCHANGED <<clock, mechanismRotationY, modules, alt, geometry, twin, pending>>

\* setPlanet(value)
SetPlanet ==
    /\ events < MaxEvents
    /\ events' = events + 1
    /\ \E p \in Planets : p # planet /\ planet' = p
    /\ UNCHANGED <<rpm, isRotating, personMass, habitatConfig, rotationLocked>>
    /\ UNCHANGED <<clock, mechanismRotationY, modules, alt, geometry, twin, pending>>

\* setPersonMass(Number(e.target.value))
SetPersonMass ==
    /\ events < MaxEvents
    /\ events' = events + 1
    /\ \E m \in MassChoices : m # personMass /\ personMass' = m
    /\ UNCHANGED <<rpm, isRotating, planet, habitatConfig, rotationLocked>>
    /\ UNCHANGED <<clock, mechanismRotationY, modules, alt, geometry, twin, pending>>

\* setRotationLocked(!rotationLocked)
ToggleRotationLocked ==
    /\ events < MaxEvents
    /\ events' = events + 1
    /\ rotationLocked' = ~rotationLocked
    /\ UNCHANGED <<rpm, isRotating, planet, personMass, habitatConfig>>
    /\ UNCHANGED <<clock, mechanismRotationY, modules, alt, geometry, twin, pending>>

\* the per-habitat state after the habitat list is re-rendered with n entries:
\* components are keyed by index, so an index below the old count keeps its
\* component (and its state) and any other index mounts a fresh component
Remount(f, n, zero) ==
    [i \in 0 .. (n - 1) |-> IF i \in DOMAIN f THEN f[i] ELSE zero]

\* setHabitatConfig(value)
SetHabitatConfig ==
    /\ events < MaxEvents
    /\ events' = events + 1
    /\ \E c \in HabitatConfigs :
          /\ c # habitatConfig
          /\ HABITAT_CONFIGS(c) <= MaxHabitats
          /\ habitatConfig' = c
          /\ jointAngles' = Remount(jointAngles, HABITAT_CONFIGS(c), ZeroAngles)
          /\ angularVelocities' = Remount(angularVelocities, HABITAT_CONFIGS(c), ZeroAngles)
          /\ inertialLagAngle' = Remount(inertialLagAngle, HABITAT_CONFIGS(c), 0)
          /\ boxRotation' = Remount(boxRotation, HABITAT_CONFIGS(c), 0)
          /\ boxRotationY' = Remount(boxRotationY, HABITAT_CONFIGS(c), 0)
    /\ UNCHANGED <<rpm, isRotating, planet, personMass, rotationLocked>>
    /\ UNCHANGED <<clock, mechanismRotationY, alt, geometry, twin, pending>>

Next ==
    \/ RenderFrame
    \/ SetRpm
    \/ ToggleRotating
    \/ SetPlanet
    \/ SetPersonMass
    \/ ToggleRotationLocked
    \/ SetHabitatConfig

Spec == Init /\ [][Next]_vars

(* ------------------ geometry inputs and the twin run ------------------- *)
\* slider and dropdown values the user picks in the model: arm length in cm,
\* box shapes, box size factor in tenths
ArmLengthChoices == {80, 200}
BoxTypes == {"cube", "rectangle", "sphere"}
BoxSizeChoices == {10, 20}

\* setConnectingArmLength(Number(e.target.value)): the habitats are re-rendered
\* with the new prop; every component stays mounted and keeps its state
SetConnectingArmLength ==
    /\ events < MaxEvents
    /\ events' = events + 1
    /\ \E l \in ArmLengthChoices : l # connectingArmLength /\ connectingArmLength' = l
    /\ UNCHANGED <<boxType, boxSize>>
    /\ UNCHANGED <<config, clock, mechanismRotationY, modules, alt, twin, pending>>

\* SetBoxType if the habitat components were remounted for the new shape
SetBoxTypeRemounts ==
    /\ events < MaxEvents
    /\ events' = events + 1
    /\ \E b \in BoxTypes : b # boxType /\ boxType' = b
    /\ jointAngles' = [i \in Habitats |-> ZeroAngles]
    /\ angularVelocities' = [i \in Habitats |-> ZeroAngles]
    /\ inertialLagAngle' = [i \in Habitats |-> 0]
    /\ boxRotation' = [i \in Habitats |-> 0]
    /\ boxRotationY' = [i \in Habitats |-> 0]
    /\ UNCHANGED <<connectingArmLength, boxSize>>
    /\ UNCHANGED <<config, clock, mechanismRotationY, alt, twin, pending>>

\* setBoxType(value): only the meshes inside BoxHabitat change
SetBoxType ==
    /\ events < MaxEvents
    /\ events' = events + 1
    /\ \E b \in BoxTypes : b # boxType /\ boxType' = b
    /\ UNCHANGED <<connectingArmLength, boxSize>>
    /\ UNCHANGED <<config, clock, mechanismRotationY, modules, alt, twin, pending>>

\* setBoxSize(Number(e.target.value))
SetBoxSize ==
    /\ events < MaxEvents
    /\ events' = events + 1
    /\ \E z \in BoxSizeChoices : z # boxSize /\ boxSize' = z
    /\ UNCHANGED <<connectingArmLength, boxType>>
    /\ UNCHANGED <<config, clock, mechanismRotationY, modules, alt, twin, pending>>

\* the useFrame callbacks of one frame applied to the dynamics t of a
\* simulation whose geometry props are the initial ones
FrameOf(t, dt) ==
    [mechanismRotationY |-> HubFrame(t.mechanismRotationY, dt),
     jointAngles |->
        [i \in Habitats |->
            JointFrame(t.jointAngles[i], t.angularVelocities[i], dt).angles],
     angularVelocities |->
        [i \in Habitats |->
            JointFrame(t.jointAngles[i], t.angularVelocities[i], dt).velocities],
     inertialLagAngle |-> [i \in Habitats |-> LagFrame(t.inertialLagAngle[i], dt)],
     boxRotation |->
        [i \in Habitats |->
            BoxFrame(t.boxRotation[i], t.boxRotationY[i], elapsed + dt, dt).state],
     boxRotationY |->
        [i \in Habitats |->
            BoxFrame(t.boxRotation[i], t.boxRotationY[i], elapsed + dt, dt).y]]

\* one rendered frame of both simulations, with the same delta
TwinFrame ==
    /\ frame < MaxFrames
    /\ \E dt \in DeltaChoices : Frame(dt) /\ twin' = FrameOf(twin, dt)

\* Both simulations get every frame and every input of (rpm, environment,
\* active, occupant mass, lock); the geometry inputs go to the first only.
GeomNext ==
    \/ TwinFrame
    \/ SetRpm
    \/ ToggleRotating
    \/ SetPlanet
    \/ SetPersonMass
    \/ ToggleRotationLocked
    \/ SetConnectingArmLength
    \/ SetBoxType
    \/ SetBoxSize

GeomSpec == Init /\ [][GeomNext]_vars

(* ------------------------- every input widget -------------------------- *)
\* the values the range inputs and the habitat dropdown can deliver
RpmRange == 0 .. 60
PersonMassRange == {40 + 5 * k : k \in 0 .. 16}
ArmLengthRange == {30 + 5 * k : k \in 0 .. 34}
HabitatCounts == {HABITAT_CONFIGS(c) : c \in HabitatConfigs}

\* one rendered frame of 1/60 s
ConfigFrame ==
    /\ frame < MaxFrames
    /\ Frame(10)
    /\ UNCHANGED twin

\* every input that sets a value of the configuration, and frames of 1/60 s
ConfigNext ==
    \/ ConfigFrame
    \/ SetRpm
    \/ ToggleRotating
    \/ SetPlanet
    \/ SetPersonMass
    \/ ToggleRotationLocked
    \/ SetHabitatConfig
    \/ SetConnectingArmLength

ConfigSpec == Init /\ [][ConfigNext]_vars

(* ------------------- stopping under the rotation lock ------------------ *)
\* The rotation is started, stopped and locked and the planet is changed while
\* frames are rendered: long enough to stop in one environment and go on in
\* another.
StopFrame ==
    /\ frame < MaxStopFrames
    /\ \E dt \in DeltaChoices : Frame(dt)
    /\ UNCHANGED twin

StopNext ==
    \/ StopFrame
    \/ ToggleRotating
    \/ SetPlanet
    \/ ToggleRotationLocked

StopSpec == Init /\ [][StopNext]_vars

(* -------------------- the alternate implementation -------------------- *)
\* RotatingArmSystem.useFrame: the accumulated rotation after the callback
AltRotationFrame(rotation, dt) ==
    IF altIsRotating THEN rotation + TimesDelta(AngularVelocity(altRpm), dt)
    ELSE rotation

\* RotatingArmSystem.useFrame: systemRef.rotation.y after the callback, which
\* is assigned the currentRotation of the render the callback closed over
AltSystemFrame(rotY, rotation) ==
    IF altIsRotating /\ ~rotationFixed THEN rotation ELSE rotY

\* one rendered frame of the alternate implementation
AltFrame(dt) ==
    /\ delta' = dt
    /\ frame' = frame + 1
    /\ currentRotation' = AltRotationFrame(currentRotation, dt)
    /\ systemRotationY' = AltSystemFrame(systemRotationY, currentRotation)
    /\ UNCHANGED <<altRpm, altIsRotating, rotationFixed, altPlanet, altLayout>>
    /\ UNCHANGED <<config, events, elapsed, frameProps, mechanismRotationY, modules>>
    /\ UNCHANGED <<geometry, twin, pending>>

AltRenderFrame ==
    /\ frame < MaxFrames
    /\ \E dt \in DeltaChoices : AltFrame(dt)

\* a user input of the alternate App: only the App state changes
AltInput ==
    /\ events < MaxEvents
    /\ events' = events + 1
    /\ UNCHANGED <<currentRotation, systemRotationY>>
    /\ UNCHANGED <<config, clock, mechanismRotationY, modules>>
    /\ UNCHANGED <<geometry, twin, pending>>

\* setRpm(parseFloat(e.target.value))
AltSetRpm ==
    /\ AltInput
    /\ \E r \in RpmChoices : r # altRpm /\ altRpm' = r
    /\ UNCHANGED <<altIsRotating, rotationFixed, altPlanet, altLayout>>

\* handleStart
HandleStart ==
    /\ AltInput
    /\ altIsRotating' = TRUE
    /\ UNCHANGED <<altRpm, rotationFixed, altPlanet, altLayout>>

\* handleStop
HandleStop ==
    /\ AltInput
    /\ altIsRotating' = FALSE
    /\ UNCHANGED <<altRpm, rotationFixed, altPlanet, altLayout>>

\* handleReset that also returns the accumulated rotation to 0
HandleResetClearsRotation ==
    /\ events < MaxEvents
    /\ events' = events + 1
    /\ altIsRotating' = FALSE
    /\ altRpm' = 0
    /\ currentRotation' = 0
    /\ systemRotationY' = 0
    /\ UNCHANGED <<rotationFixed, altPlanet, altLayout>>
    /\ UNCHANGED <<config, clock, mechanismRotationY, modules>>
    /\ UNCHANGED <<geometry, twin, pending>>

\* handleReset
HandleReset ==
    /\ AltInput
    /\ altIsRotating' = FALSE
    /\ altRpm' = 0
    /\ UNCHANGED <<rotationFixed, altPlanet, altLayout>>

\* setRotationFixed(e.target.checked)
SetRotationFixed ==
    /\ AltInput
    /\ rotationFixed' = ~rotationFixed
    /\ UNCHANGED <<altRpm, altIsRotating, altPlanet, altLayout>>

\* setPlanet
AltSetPlanet ==
    /\ AltInput
    /\ \E p \in Planets : p # altPlanet /\ altPlanet' = p
    /\ UNCHANGED <<altRpm, altIsRotating, rotationFixed, altLayout>>

\* the options of the habitat dropdown and the box dropdown, and the two
\* ends of the box size slider
NumHabitatsOptions == {2, 4, 6, 8}
AltBoxTypes == {"cube", "rectangle", "sphere", "cylinder", "capsule"}
AltBoxSizeChoices == {8, 12, 25}

\* setNumHabitats(parseInt(value))
SetNumHabitats ==
    /\ AltInput
    /\ \E n \in NumHabitatsOptions : n # numHabitats /\ numHabitats' = n
    /\ UNCHANGED <<altRpm, altIsRotating, rotationFixed, altPlanet, altBoxType, altBoxSize>>

\* setBoxType
AltSetBoxType ==
    /\ AltInput
    /\ \E t \in AltBoxTypes : t # altBoxType /\ altBoxType' = t
    /\ UNCHANGED <<altRpm, altIsRotating, rotationFixed, altPlanet, numHabitats, altBoxSize>>

\* setBoxSize(parseFloat(e.target.value))
AltSetBoxSize ==
    /\ AltInput
    /\ \E b \in AltBoxSizeChoices : b # altBoxSize /\ altBoxSize' = b
    /\ UNCHANGED <<altRpm, altIsRotating, rotationFixed, altPlanet, numHabitats, altBoxType>>

AltNext ==
    \/ AltRenderFrame
    \/ AltSetPlanet
    \/ SetNumHabitats
    \/ AltSetBoxType
    \/ AltSetBoxSize
    \/ AltSetRpm
    \/ HandleStart
    \/ HandleStop
    \/ HandleReset
    \/ SetRotationFixed

AltSpec == Init /\ [][AltNext]_vars

(* ------------------ the alternate App: physics values ----------------- *)
\* PHYSICS.MAX_HINGE_ANGLE, degrees
MAX_HINGE_ANGLE == 60

\* Math.pow(angularVelocity, 2) * PHYSICS.ARM_LENGTH, milli-m/s^2
altCentrifugalAcceleration == CentrifugalAcceleration(altRpm)

\* Math.sqrt(centrifugalAcceleration^2 + planetGravity^2), milli-m/s^2
altTotalGravity == Hypot(altCentrifugalAcceleration, PLANET_DATA(altPlanet))

\* thousandths of a degree
idealHingeAngle ==
    IF PLANET_DATA(altPlanet) > 0
    THEN Degrees(Atan(altCentrifugalAcceleration, PLANET_DATA(altPlanet)))
    ELSE (IF altCentrifugalAcceleration > 0 THEN MAX_HINGE_ANGLE * Milli ELSE 0)

\* hingeAngle without the safety limit
hingeAngleUnlimited == idealHingeAngle

\* Math.min(idealHingeAngle, PHYSICS.MAX_HINGE_ANGLE)
hingeAngle == Min(idealHingeAngle, MAX_HINGE_ANGLE * Milli)

\* the alternate gravityAngle, micro-radians
altGravityAngle ==
    IF PLANET_DATA(altPlanet) > 0
    THEN Atan(altCentrifugalAcceleration, PLANET_DATA(altPlanet))
    ELSE (IF altCentrifugalAcceleration > 0 THEN HalfPi ELSE 0)

\* the gravity values the alternate App divides by
AltGravityDivisors ==
    IF PLANET_DATA(altPlanet) > 0 THEN {PLANET_DATA(altPlanet)} ELSE {}

(* --------------------- the alternate App: the hinge -------------------- *)
\* HabitatBox.useFrame: hingeRef.rotation.x = (hingeAngle * Math.PI) / 180,
\* micro-radians
hingeRotationX == MulDiv(hingeAngle, PI \div 18, 10 * Milli)

\* the whole-rpm positions of the rpm slider (0 to PHYSICS.MAX_RPM)
AltRpmRange == 0 .. 60

\* setRpm(parseFloat(e.target.value)) with any position of the slider
AltSlideRpm ==
    /\ AltInput
    /\ \E r \in AltRpmRange : r # altRpm /\ altRpm' = r
    /\ UNCHANGED <<altIsRotating, rotationFixed, altPlanet, altLayout>>

\* The rpm slider and the planet dropdown are moved while frames are rendered.
HingeNext ==
    \/ AltRenderFrame
    \/ AltSlideRpm
    \/ AltSetPlanet

HingeSpec == Init /\ [][HingeNext]_vars

(* ------------------------- fixed-step runs ----------------------------- *)
\* The simulation is started with some configuration before the first frame
\* and then left alone while the render loop delivers a constant delta.
RunInit ==
    /\ rpm \in RunRpmChoices
    /\ isRotating = TRUE
    /\ planet \in Planets
    /\ personMass \in RunMassChoices
    /\ habitatConfig = "dual"
    /\ rotationLocked = FALSE
    /\ elapsed = 0
    /\ delta = 0
    /\ frame = 0
    /\ events = 0
    /\ frameProps = Props
    /\ mechanismRotationY = 0
    /\ jointAngles = [i \in 0 .. 1 |-> ZeroAngles]
    /\ angularVelocities = [i \in 0 .. 1 |-> ZeroAngles]
    /\ inertialLagAngle = [i \in 0 .. 1 |-> 0]
    /\ boxRotation = [i \in 0 .. 1 |-> 0]
    /\ boxRotationY = [i \in 0 .. 1 |-> 0]
    /\ GeometryInit
    /\ twin = Dynamics
    /\ pending = NoPending
    /\ AltInit

RunFrame ==
    /\ frame < MaxRunFrames
    /\ \E dt \in RunDeltaChoices :
          /\ frame = 0 \/ dt = delta
          /\ Frame(dt)
    /\ UNCHANGED twin

RunNext == RunFrame

RunSpec == RunInit /\ [][RunNext]_vars

(* --------------- frame callbacks and the commit of state --------------- *)
\* A frame callback reads the state values of the render it was created in.
\* A value passed to a state setter is queued; the callbacks see it once the
\* component has been rendered again and committed, which the scheduler does
\* in a task of its own after the frame.

\* the state values of the last committed render
Committed ==
    [jointAngles |-> jointAngles,
     angularVelocities |-> angularVelocities,
     inertialLagAngle |-> inertialLagAngle,
     boxRotation |-> boxRotation]

\* the state values once every queued update is committed
Latest ==
    [field \in DOMAIN Committed |->
        IF field \in DOMAIN pending THEN pending[field] ELSE Committed[field]]

\* the state setters the callbacks of one frame call
FieldsSet ==
    IF Driving \/ planet # "space"
    THEN {"jointAngles", "angularVelocities", "inertialLagAngle", "boxRotation"}
    ELSE {"angularVelocities"}

\* the values the callbacks of one frame compute from the committed state
SetValues(dt) ==
    [jointAngles |->
        [i \in Habitats |->
            JointFrame(jointAngles[i], angularVelocities[i], dt).angles],
     angularVelocities |->
        [i \in Habitats |->
            JointFrame(jointAngles[i], angularVelocities[i], dt).velocities],
     inertialLagAngle |-> [i \in Habitats |-> LagFrame(inertialLagAngle[i], dt)],
     boxRotation |->
        [i \in Habitats |->
            BoxFrame(boxRotation[i], boxRotationY[i], elapsed + dt, dt).state]]

\* one rendered frame: every useFrame callback runs once, assigns the object
\* rotations and queues its state updates
CallbackFrame(dt) ==
    /\ elapsed' = elapsed + dt
    /\ delta' = dt
    /\ frame' = frame + 1
    /\ frameProps' = Props
    /\ mechanismRotationY' = HubFrame(mechanismRotationY, dt)
    /\ boxRotationY' =
          [i \in Habitats |->
              BoxFrame(boxRotation[i], boxRotationY[i], elapsed + dt, dt).y]
    /\ pending' =
          [field \in (DOMAIN pending) \union FieldsSet |->
              IF field \in FieldsSet THEN SetValues(dt)[field] ELSE pending[field]]
    /\ UNCHANGED <<jointAngles, angularVelocities, inertialLagAngle, boxRotation>>
    /\ UNCHANGED <<config, events, alt, geometry, twin>>

QueuedFrame ==
    /\ frame < MaxQueuedFrames
    /\ \E dt \in RunDeltaChoices : CallbackFrame(dt)

\* the components are rendered with the queued values and committed
CommitRender ==
    /\ pending # NoPending
    /\ jointAngles' = Latest.jointAngles
    /\ angularVelocities' = Latest.angularVelocities
    /\ inertialLagAngle' = Latest.inertialLagAngle
    /\ boxRotation' = Latest.boxRotation
    /\ pending' = NoPending
    /\ UNCHANGED <<config, events, clock, mechanismRotationY, boxRotationY>>
    /\ UNCHANGED <<alt, geometry, twin>>

CommitNext ==
    \/ QueuedFrame
    \/ CommitRender

CommitSpec == RunInit /\ [][CommitNext]_vars

(* ------------------------------ claims --------------------------------- *)
OneMilliRad == Micro \div Milli
TwoDegrees == (2 * PI) \div 180
TenSeconds == 10 * TicksPerSecond

\* the step is a rendered frame
IsFrame == frame' = frame + 1

\* C1: after every frame the joint angles of every habitat satisfy
\* |angleX| <= pi/2 and |angleZ| <= pi/2.
C1_JointAnglesBounded ==
    \A i \in Habitats :
        /\ Abs(jointAngles[i].x) <= HalfPi
        /\ Abs(jointAngles[i].z) <= HalfPi

\* C2: after every frame the arm lag angle of every habitat satisfies
\* 0 <= lagAngle <= pi/6.
C2_LagAngleBounded ==
    \A i \in Habitats :
        /\ 0 <= inertialLagAngle[i]
        /\ inertialLagAngle[i] <= SixthPi

\* C3: with rotation lock on, after every frame rendered while the simulation
\* is active, counterAngle + hubAngle = 0 (to within 1e-3 rad) for every habitat.
C3_CounterAngleCancelsHub ==
    [][(IsFrame /\ rotationLocked /\ isRotating) =>
          \A i \in Habitats :
              Abs(boxRotationY'[i] + mechanismRotationY') <= OneMilliRad]_vars

\* C4: in every frame rendered while inactive in Vacuum, both joint angles of
\* every habitat are left unchanged and both angular velocities are multiplied
\* by the damping factor 0.88.
C4_VacuumHoldOnStop ==
    [][(IsFrame /\ ~isRotating /\ planet = "space") =>
          \A i \in Habitats :
              /\ jointAngles'[i] = jointAngles[i]
              /\ angularVelocities'[i].x = Damp(angularVelocities[i].x)
              /\ angularVelocities'[i].z = Damp(angularVelocities[i].z)]_vars

\* C4 witness: an inactive frame in Vacuum has just run on a habitat that
\* holds a tilted joint that is still moving.
C4_Witness ==
    /\ frame = 2
    /\ ~frameProps.isRotating
    /\ frameProps.planet = "space"
    /\ jointAngles[0].z > 0
    /\ angularVelocities[0].z > 0

\* C5: in Earth, Moon or Mars, on every inactive frame with dt <= 0.1 s (after
\* frames with dt <= 0.1 s) the magnitude of angleZ does not increase and the
\* angle does not pass 0 by more than 2 degrees.
C5_GravityReturnMonotone ==
    [][(IsFrame /\ ~isRotating /\ planet # "space" /\ delta <= 60 /\ delta' <= 60) =>
          \A i \in Habitats :
              /\ Abs(jointAngles'[i].z) <= Abs(jointAngles[i].z)
              /\ jointAngles'[i].z >= 0 - TwoDegrees]_vars

\* C6: held active from the zero state with constant rpm > 0, environment and
\* fixed dt in (0, 0.1] s, after 10 simulated seconds |angleZ - target| <= 1e-3.
C6_ConvergedAfterTenSeconds ==
    (elapsed = TenSeconds /\ Driving) =>
        \A i \in Habitats :
            Abs(jointAngles[i].z - ClampedTargetZ(rpm, planet)) <= OneMilliRad

\* the per-habitat state of habitat i is all zero (read in the next state
\* when primed)
ZeroHabitat(i) ==
    /\ jointAngles[i] = ZeroAngles
    /\ angularVelocities[i] = ZeroAngles
    /\ inertialLagAngle[i] = 0
    /\ boxRotation[i] = 0
    /\ boxRotationY[i] = 0

\* C7: when the habitat count changes, every per-habitat state of every
\* habitat of the new set is zero immediately after the change.
C7_CountChangeResetsState ==
    [][(habitatConfig' # habitatConfig) =>
          \A i \in 0 .. (HABITAT_CONFIGS(habitatConfig') - 1) : ZeroHabitat(i)']_vars

\* C8: in every state all habitats of the current set hold identical joint
\* angles, angular velocities and lag angles.
C8_HabitatsIdentical ==
    \A i, j \in Habitats :
        /\ jointAngles[i] = jointAngles[j]
        /\ angularVelocities[i] = angularVelocities[j]
        /\ inertialLagAngle[i] = inertialLagAngle[j]

\* C9: a frame rendered while active advances the hub angle by exactly
\* (rpm * 2 * pi / 60) * dt; a frame rendered while inactive, and every other
\* step, leaves the hub angle unchanged.
C9_HubRotationStep ==
    [][mechanismRotationY' =
          IF IsFrame /\ isRotating
          THEN mechanismRotationY + MulDiv((rpm * 2 * PI) \div 60, delta', TicksPerSecond)
          ELSE mechanismRotationY]_vars

\* C9, alternate implementation: the same step on the accumulated rotation of
\* RotatingArmSystem.
C9_AltHubRotationStep ==
    [][currentRotation' =
          IF IsFrame /\ altIsRotating
          THEN currentRotation + MulDiv((altRpm * 2 * PI) \div 60, delta', TicksPerSecond)
          ELSE currentRotation]_vars

\* C9 witness: the hub was advanced by an active frame and then held, not
\* reset, by an inactive frame.
C9_Witness ==
    /\ frame = 2
    /\ ~frameProps.isRotating
    /\ mechanismRotationY > 0

C11_ZeroSpinDrivesTowardZero ==
    [][(IsFrame /\ isRotating /\ rpm = 0) =>
          \A i \in Habitats :
              /\ jointAngles'[i].x =
                    AxisStep(jointAngles[i].x, angularVelocities[i].x, 0,
                             ResponseSpeed(personMass), delta').angle
              /\ jointAngles'[i].z =
                    AxisStep(jointAngles[i].z, angularVelocities[i].z, 0,
                             ResponseSpeed(personMass), delta').angle]_vars

C12_AltZeroSpinBaseline ==
    (altRpm = 0) =>
        /\ altCentrifugalAcceleration = 0
        /\ altTotalGravity = PLANET_DATA(altPlanet)

\* C13: the reported gravityAngle in Vacuum is 90 degrees whenever the reported
\* centrifugalAccel is positive and 0 otherwise (0 when active with rpm = 0).
C13_VacuumGravityAngle ==
    (planet = "space") =>
        gravityAngle = IF centrifugalAcceleration > 0 THEN 90 * Milli ELSE 0

\* C13, alternate implementation: the gravityAngle of the alternate App in
\* Vacuum is pi/2 when its centrifugalAcceleration is positive and 0 otherwise.
C13_AltVacuumGravityAngle ==
    (altPlanet = "space") =>
        altGravityAngle = IF altCentrifugalAcceleration > 0 THEN HalfPi ELSE 0

\* C14: the reported ideal joint angle and lag angle equal, in degrees, the
\* clamped targets of the joint solver and of the arm-lag solver in the same
\* configuration: the lag angle never exceeds 30 degrees, the ideal joint
\* angle never exceeds 90 degrees, and both are 0 when the solvers do not drive.
C14_ReportMirrorsSolverTargets ==
    /\ idealAngle = IF Driving THEN Degrees(ClampedTargetZ(rpm, planet)) ELSE 0
    /\ reportInertialLagAngle =
          IF Driving THEN Degrees(ClampedLagAngle(rpm, planet)) ELSE 0
    /\ idealAngle <= 90 * Milli
    /\ reportInertialLagAngle <= 30 * Milli

C15_AltVacuumSpinReport ==
    (altRpm > 0 /\ altPlanet = "space") =>
        /\ altTotalGravity = altCentrifugalAcceleration
        /\ idealHingeAngle = MAX_HINGE_ANGLE * Milli
        /\ hingeAngle = idealHingeAngle

\* C16: in every configuration (environment, rpm including 0, active flag) no
\* frame callback and no report computation divides by a gravity of 0.
C16_NoDivisionByZeroGravity ==
    0 \notin (JointGravityDivisors \union LagGravityDivisors
                \union ReportGravityDivisors)

\* C16, alternate implementation: the alternate App divides by no gravity of 0.
C16_AltNoDivisionByZeroGravity == 0 \notin AltGravityDivisors

\* C16 witness: a frame has just driven the solvers in Vacuum, the report is
\* computed for an active simulation in Vacuum, and nothing was divided.
C16_Witness ==
    /\ frame > 0
    /\ frameProps.planet = "space"
    /\ frameProps.isRotating
    /\ frameProps.rpm > 0
    /\ planet = "space"
    /\ isRotating
    /\ JointGravityDivisors \union ReportGravityDivisors = {}

DriveSpeed ==
    [m \in PersonMassRange |-> (1500 * Milli) \div Sqrt(((50 + m) * Micro) \div 50)]

\* C19: on a driving frame, for each axis, newVelocity = (velocity +
\* (target - angle) * responseSpeed * dt) * 0.88 and newAngle = angle +
\* newVelocity * dt, with responseSpeed = 1.5 / sqrt((50 + occupantMass) / 50);
\* from the same state and target no heavier occupant gives a larger step
\* toward the target.
C19_DriveUpdate ==
    [][(IsFrame /\ Driving) =>
          LET dt == delta'
              vel(v, a, target, m) ==
                  MulDiv(v + MulDiv(MulDiv(target - a, DriveSpeed[m], Milli),
                                    dt, TicksPerSecond), 88, 100)
              step(v, a, target, m) ==
                  MulDiv(vel(v, a, target, m), dt, TicksPerSecond)
              toward(v, a, target, m) ==
                  IF target >= a THEN step(v, a, target, m)
                                 ELSE 0 - step(v, a, target, m)
              tz == ClampedTargetZ(rpm, planet)
          IN  \A i \in Habitats :
                  LET ja == jointAngles[i]
                      av == angularVelocities[i]
                  IN  /\ angularVelocities'[i].x = vel(av.x, ja.x, 0, personMass)
                      /\ angularVelocities'[i].z = vel(av.z, ja.z, tz, personMass)
                      /\ jointAngles'[i].x = ja.x + step(av.x, ja.x, 0, personMass)
                      /\ jointAngles'[i].z = ja.z + step(av.z, ja.z, tz, personMass)
                      /\ \A m \in {h \in PersonMassRange : h > personMass} :
                            /\ toward(av.x, ja.x, 0, m)
                                  <= toward(av.x, ja.x, 0, personMass)
                            /\ toward(av.z, ja.z, tz, m)
                                  <= toward(av.z, ja.z, tz, personMass)]_vars

\* C19 witness: a second driving frame has run on a joint that was already
\* tilted and moving, with the heaviest occupant.
C19_Witness ==
    /\ frame = 2
    /\ frameProps.isRotating
    /\ frameProps.rpm > 0
    /\ personMass = 120
    /\ jointAngles[0].z > 0
    /\ angularVelocities[0].z > 0

\* C20: every frame computes the new joint angles, angular velocities and lag
\* angle of every habitat from the values the preceding frame wrote, whether
\* or not those values have been committed when the frame runs.
C20_FramesReadLatestState ==
    [][IsFrame =>
          \A i \in Habitats :
              LET joint == JointFrame(Latest.jointAngles[i],
                                      Latest.angularVelocities[i], delta')
              IN  /\ Latest'.jointAngles[i] = joint.angles
                  /\ Latest'.angularVelocities[i] = joint.velocities
                  /\ Latest'.inertialLagAngle[i] =
                        LagFrame(Latest.inertialLagAngle[i], delta')]_vars

\* the longest delta the stop updates are stated for: 0.1 s
TenthOfSecond == TicksPerSecond \div 10

\* C21: on every frame rendered while not driving, the lag angle of every
\* habitat is unchanged in Vacuum and becomes lag + (0 - lag) * 3.0 * dt in
\* Earth, Moon and Mars; there, from a lag >= 0 with dt <= 0.1 s, it stays
\* >= 0 and is strictly smaller while it was positive.
C21_LagStopUpdate ==
    [][(IsFrame /\ ~Driving) =>
          \A i \in Habitats :
              LET lag == inertialLagAngle[i]
                  new == inertialLagAngle'[i]
              IN  IF planet = "space" THEN new = lag
                  ELSE /\ new = lag + MulDiv((0 - lag) * 3, delta', TicksPerSecond)
                       /\ (lag >= 0 /\ delta' <= TenthOfSecond) =>
                             /\ new >= 0
                             /\ (lag > 0 => new < lag)]_vars

\* C21 witness: a frame of at most 0.1 s was rendered while stopped in a
\* gravity environment and left a lag angle that is still positive.
C21_Witness ==
    /\ frame = 2
    /\ ~frameProps.isRotating
    /\ frameProps.planet # "space"
    /\ delta <= TenthOfSecond
    /\ inertialLagAngle[0] > 0

\* C22: with the rotation lock on, every frame rendered while inactive in
\* Vacuum leaves the counter-angle of every habitat as it was (frozen at the
\* value of the last active frame), whatever happened before, a stop in a
\* gravity environment followed by a change to Vacuum included.
C22_VacuumStopFreezesCounterAngle ==
    [][(IsFrame /\ ~isRotating /\ planet = "space" /\ rotationLocked) =>
          \A i \in Habitats : boxRotationY'[i] = boxRotationY[i]]_vars

\* C23: on every frame rendered while inactive in Earth, Moon or Mars the
\* counter-angle of every habitat moves from c to c + (0 - c) * 3 * dt, and
\* its magnitude does not grow.
C23_GravityStopRelaxesCounterAngle ==
    [][(IsFrame /\ ~isRotating /\ planet # "space") =>
          \A i \in Habitats :
              LET c == boxRotationY[i]
              IN  /\ boxRotationY'[i] = c + MulDiv((0 - c) * 3, delta', TicksPerSecond)
                  /\ Abs(boxRotationY'[i]) <= Abs(c)]_vars

\* C23 for frames of at most 0.1 s: the same relaxation, the magnitude does
\* not grow and the angle does not change sign.
C23_GravityStopRelaxesForShortFrames ==
    [][(IsFrame /\ ~isRotating /\ planet # "space" /\ delta' <= TenthOfSecond) =>
          \A i \in Habitats :
              LET c == boxRotationY[i]
              IN  /\ boxRotationY'[i] = c + MulDiv((0 - c) * 3, delta', TicksPerSecond)
                  /\ Abs(boxRotationY'[i]) <= Abs(c)
                  /\ (c >= 0 => boxRotationY'[i] >= 0)
                  /\ (c <= 0 => boxRotationY'[i] <= 0)]_vars

\* C24: the hub angle never decreases; a frame rendered while active adds the
\* whole step (rpm * 2 * pi / 60) * dt to it, past 2 * pi without reduction;
\* every other step leaves it unchanged.
C24_HubAccumulates ==
    [][/\ mechanismRotationY' >= mechanismRotationY
       /\ (IsFrame /\ isRotating) =>
             mechanismRotationY' - mechanismRotationY =
                MulDiv((rpm * 2 * PI) \div 60, delta', TicksPerSecond)
       /\ ~(IsFrame /\ isRotating) => mechanismRotationY' = mechanismRotationY]_vars

\* C24, alternate implementation: the accumulated rotation and the rotation
\* applied to the system group never decrease, the accumulated rotation grows
\* by the whole step, and both change only on frames rendered while active.
C24_AltHubAccumulates ==
    [][/\ currentRotation' >= currentRotation
       /\ systemRotationY' >= systemRotationY
       /\ (IsFrame /\ altIsRotating) =>
             currentRotation' - currentRotation =
                MulDiv((altRpm * 2 * PI) \div 60, delta', TicksPerSecond)
       /\ ~(IsFrame /\ altIsRotating) =>
             /\ currentRotation' = currentRotation
             /\ systemRotationY' = systemRotationY]_vars

\* C24 witness: two active frames have accumulated more than one full turn.
C24_Witness ==
    /\ frame = 2
    /\ frameProps.isRotating
    /\ mechanismRotationY > 2 * PI

\* C25: habitat i of n is placed at azimuth i * 2 * pi / n + hub angle; for
\* every habitat count of the dropdown the n placements are pairwise distinct
\* within one turn and evenly spaced by 2 * pi / n, around the full circle,
\* and every azimuth is its fixed offset plus the one hub angle.
C25_ModulePlacement ==
    /\ \A i \in Habitats :
          /\ Azimuth(i) = (i * 2 * PI) \div habitatCount + mechanismRotationY
          /\ Azimuth(i) - Azimuth(0) = HabitatAngle(i, habitatCount)
    /\ \A n \in HabitatCounts :
          LET step == (2 * PI) \div n
              at(i) == HabitatAngle(i, n)
          IN  /\ \A i, j \in 0 .. (n - 1) : i < j => (at(i) < at(j) /\ at(j) - at(i) < 2 * PI)
              /\ \A i \in 0 .. (n - 2) : Abs(at(i + 1) - at(i) - step) <= 1
              /\ Abs(at(0) + 2 * PI - at(n - 1) - step) <= 1

\* C25 witness: four habitats are placed around a hub that has turned.
C25_Witness ==
    /\ habitatCount = 4
    /\ frame > 0
    /\ mechanismRotationY > 0
    /\ Azimuth(3) > Azimuth(2)

\* C26: in the alternate implementation, for every rpm in 0..60 and every
\* planet, the hinge angle that is applied is min(idealHingeAngle, 60 degrees),
\* never more than 60 degrees; in Vacuum it is 60 degrees when the
\* centrifugal acceleration is positive and 0 when rpm = 0.
C26_HingeSafetyClamp ==
    /\ hingeAngle = (IF idealHingeAngle <= 60 * Milli THEN idealHingeAngle ELSE 60 * Milli)
    /\ hingeAngle >= 0
    /\ hingeAngle <= 60 * Milli
    /\ hingeRotationX <= PI \div 3
    /\ altPlanet = "space" =>
          /\ altCentrifugalAcceleration > 0 => hingeAngle = 60 * Milli
          /\ altRpm = 0 => hingeAngle = 0
    /\ altRpm > 0 => altCentrifugalAcceleration > 0

\* C26 witness: on Earth the ideal hinge angle exceeds 60 degrees and the
\* applied angle is held at 60 degrees after a frame.
C26_Witness ==
    /\ frame > 0
    /\ altPlanet = "earth"
    /\ idealHingeAngle > 60 * Milli
    /\ hingeAngle = 60 * Milli

\* C27: the X angle and the X angular velocity of every joint are 0 in every
\* reachable state, whatever frames, planets, rpm values, masses and toggles
\* of the rotation came before.
C27_SidewaysAxisStaysZero ==
    \A i \in Habitats :
        /\ jointAngles[i].x = 0
        /\ angularVelocities[i].x = 0

\* C27 witness: a driving frame and a further frame have tilted and moved the
\* Z axis of a joint whose X axis is still at rest.
C27_Witness ==
    /\ frame = 2
    /\ jointAngles[0].z > 0
    /\ angularVelocities[0].z # 0
    /\ jointAngles[0].x = 0
    /\ angularVelocities[0].x = 0

\* C28: on every frame the joint solver, the arm-lag solver and the
\* self-rotation controller of every habitat take their driving branch
\* exactly when the rotation is active and rpm > 0 and their stop branch
\* otherwise (Vacuum: hold; Earth, Moon, Mars: return), so the three never
\* disagree about the mode; the hub alone advances whenever the rotation is
\* active.
C28_ModeAgreement ==
    [][IsFrame =>
          LET drive == isRotating /\ rpm > 0
              dt == delta'
          IN  /\ JointDriving = drive
              /\ LagDriving = drive
              /\ BoxDriving = drive
              /\ HubTurning = isRotating
              /\ mechanismRotationY' = mechanismRotationY +
                    (IF isRotating
                     THEN MulDiv((rpm * 2 * PI) \div 60, dt, TicksPerSecond) ELSE 0)
              /\ \A i \in Habitats :
                    LET ja == jointAngles[i]
                        av == angularVelocities[i]
                        lag == inertialLagAngle[i]
                    IN  IF drive THEN
                            /\ jointAngles'[i].z =
                                  AxisStep(ja.z, av.z, ClampedTargetZ(rpm, planet),
                                           ResponseSpeed(personMass), dt).angle
                            /\ inertialLagAngle'[i] = lag +
                                  MulDiv((ClampedLagAngle(rpm, planet) - lag) * 2,
                                         dt, TicksPerSecond)
                            /\ boxRotation'[i] =
                                  IF rotationLocked THEN TargetRotation(rpm, elapsed')
                                  ELSE 0
                        ELSE IF planet = "space" THEN
                            /\ jointAngles'[i] = ja
                            /\ inertialLagAngle'[i] = lag
                            /\ boxRotation'[i] = boxRotation[i]
                        ELSE
                            /\ jointAngles'[i].z =
                                  AxisStep(ja.z, av.z, 0, ReturnSpeed, dt).angle
                            /\ inertialLagAngle'[i] = lag +
                                  MulDiv((0 - lag) * 3, dt, TicksPerSecond)
                            /\ boxRotation'[i] = 0]_vars

\* C28 witness: after a driving frame a frame was rendered while active with
\* rpm = 0: the hub gate was open and the three solvers were on their stop
\* branch.
C28_Witness ==
    /\ frame = 2
    /\ frameProps.isRotating
    /\ frameProps.rpm = 0
    /\ mechanismRotationY > 0
    /\ jointAngles[0].z > 0

C30_AltReset ==
    [][/\ HandleReset =>
             /\ ~altIsRotating'
             /\ altRpm' = 0
             /\ currentRotation' = currentRotation
             /\ systemRotationY' = systemRotationY
             /\ altPlanet' = altPlanet
             /\ numHabitats' = numHabitats
             /\ altBoxType' = altBoxType
             /\ altBoxSize' = altBoxSize
             /\ rotationFixed' = rotationFixed
       /\ (IsFrame /\ ~altIsRotating) =>
             /\ currentRotation' = currentRotation
             /\ systemRotationY' = systemRotationY
       /\ (~altIsRotating /\ altIsRotating') => HandleStart]_vars

\* C30 witness: rpm was set, the rotation was started, a frame accumulated
\* rotation and Reset, the third input, was pressed: the rotation is inactive
\* at rpm 0 and the accumulated rotation is still there.
C30_Witness ==
    /\ events = 3
    /\ frame = 2
    /\ ~altIsRotating
    /\ altRpm = 0
    /\ currentRotation > 0

====
